---------------------------- MODULE Spec2Model ----------------------------
(***************************************************************************)
(* Model of the deepfake-detector backend (backend/app/main.py and         *)
(* backend/app/ppg.py): the per-session rPPG colour buffers, the session   *)
(* map, the single-frame and batch request handlers, the weighted fusion   *)
(* and the threshold classifier.                                           *)
(*                                                                         *)
(* Numbers.  Every score is a float in the code.  Here a score is an       *)
(* integer number of ten-thousandths (10000 is 1.0), the resolution at     *)
(* which the handlers report (round(x, 4)).  An unrounded intermediate     *)
(* (the fused score, the batch mean) is an exact fraction [n, d] of        *)
(* ten-thousandths, so that thresholds and rounding are decided exactly.   *)
(* Binary floating-point rounding error (about 1e-16) is not represented.  *)
(***************************************************************************)
EXTENDS Integers, Sequences, FiniteSets, TLC

(***************************************************************************)
(* Program constants.                                                      *)
(***************************************************************************)
MAX_LEN == 300                 \* PPGSession.MAX_LEN
MIN_FRAMES == 60               \* PPGAnalyzer.MIN_FRAMES
FOREHEAD_FRAC_Y == 15          \* 0.15, in hundredths
FOREHEAD_FRAC_X0 == 25         \* 0.25, in hundredths
FOREHEAD_FRAC_X1 == 75         \* 0.75, in hundredths
NEUTRAL == 5000                \* the 0.5 returned when extraction fails
ONE == 10000                   \* 1.0 in ten-thousandths (round(x, 4))
W_DEEP == 60                   \* 0.60, in hundredths
W_PPG == 20                    \* 0.20, in hundredths
W_TEMP == 20                   \* 0.20, in hundredths
REAL_MAX == 3000               \* 0.30: below it "real"
FAKE_MIN == 7000               \* 0.70: from it on "fake"
WINDOW == 30                   \* TemporalConsistencyChecker(window=30)

(***************************************************************************)
(* Bounds of the model.                                                    *)
(***************************************************************************)
MaxFrames == 3                 \* frames handled in one behaviour
NearMin == 58                  \* samples a session near MIN_FRAMES starts with
NearCap == 299                 \* samples a session near MAX_LEN starts with

SessionIds == {"A", "B"}
Tasks == {1, 2}                \* handler coroutines that can exist at once

(***************************************************************************)
(* Helpers.                                                                *)
(***************************************************************************)
Max(a, b) == IF a >= b THEN a ELSE b
Min(a, b) == IF a <= b THEN a ELSE b

\* Python's int() of a product with a fraction of hundredths: truncation
\* toward zero.
IntFrac(v, hundredths) ==
    IF v >= 0 THEN (v * hundredths) \div 100
              ELSE -(((-v) * hundredths) \div 100)

LastN(s, n) ==
    IF Len(s) <= n THEN s ELSE SubSeq(s, Len(s) - n + 1, Len(s))

(***************************************************************************)
(* collections.deque(maxlen=MAX_LEN).append: at capacity the item at the   *)
(* left end is discarded.                                                  *)
(***************************************************************************)
DequeAppendDropNewest(q, x) ==
    IF Len(q) >= MAX_LEN THEN q ELSE Append(q, x)

DequeAppend(q, x) ==
    IF Len(q) >= MAX_LEN THEN Append(Tail(q), x) ELSE Append(q, x)

\* PPGSession.__init__
EmptySession == [r |-> <<>>, g |-> <<>>, b |-> <<>>]

\* PPGSession.append as one call (the handler runs it channel by channel).
SessionAppend(s, rgb) ==
    [r |-> DequeAppend(s.r, rgb[1]),
     g |-> DequeAppend(s.g, rgb[2]),
     b |-> DequeAppend(s.b, rgb[3])]

\* PPGSession.__len__
SessionLen(s) == Len(s.r)

(***************************************************************************)
(* Frames.  An image is h x w pixels of one colour <<r, g, b>>, so the     *)
(* mean over any non-empty region is that colour.  A bounding box is a     *)
(* record [x, y, w, h].                                                     *)
(***************************************************************************)
ImgH == 16
ImgW == 16

ColourA == <<200, 120, 90>>
ColourB == <<60, 140, 210>>

\* face_bbox: "given" is false for None (and for an empty dict).
NoBox == [given |-> FALSE, x |-> 0, y |-> 0, w |-> 0, h |-> 0]
BoxIn == [given |-> TRUE, x |-> 2, y |-> 2, w |-> 8, h |-> 8]
BoxOut == [given |-> TRUE, x |-> ImgW + 4, y |-> ImgH + 4, w |-> 8, h |-> 8]

\* The None that _extract_forehead_rgb returns in place of a colour.
NoRGB == <<>>

\* What a request's frame_b64 stands for: whether it decodes, whether the
\* face locator finds a face, the bounding box it reports, the pixels, and
\* what the visual model answers for the face (DeepfakeModel.predict is a
\* function of the face crop).
Images ==
    { [decodable |-> FALSE, face |-> FALSE, bbox |-> NoBox, colour |-> ColourA,
       conf |-> 0],
      [decodable |-> TRUE,  face |-> FALSE, bbox |-> NoBox, colour |-> ColourA,
       conf |-> 0],
      [decodable |-> TRUE,  face |-> TRUE,  bbox |-> BoxIn, colour |-> ColourA,
       conf |-> 1000],
      [decodable |-> TRUE,  face |-> TRUE,  bbox |-> NoBox, colour |-> ColourB,
       conf |-> 9000],
      [decodable |-> TRUE,  face |-> TRUE,  bbox |-> BoxOut, colour |-> ColourB,
       conf |-> 5000] }

ForeheadROIUnclamped(h_img, w_img, face_bbox) ==
    LET fx == IF face_bbox.given THEN face_bbox.x ELSE 0
        fy == IF face_bbox.given THEN face_bbox.y ELSE 0
        fw == IF face_bbox.given THEN face_bbox.w ELSE w_img
        fh == IF face_bbox.given THEN face_bbox.h ELSE h_img
    IN  [y1 |-> fy,
         y2 |-> fy + Max(1, IntFrac(fh, FOREHEAD_FRAC_Y)),
         x1 |-> fx + IntFrac(fw, FOREHEAD_FRAC_X0),
         x2 |-> fx + IntFrac(fw, FOREHEAD_FRAC_X1)]

\* PPGAnalyzer._extract_forehead_rgb: the clamped forehead region.
ForeheadROI(h_img, w_img, face_bbox) ==
    LET fx == IF face_bbox.given THEN face_bbox.x ELSE 0
        fy == IF face_bbox.given THEN face_bbox.y ELSE 0
        fw == IF face_bbox.given THEN face_bbox.w ELSE w_img
        fh == IF face_bbox.given THEN face_bbox.h ELSE h_img
    IN  [y1 |-> Max(0, fy),
         y2 |-> Min(h_img, fy + Max(1, IntFrac(fh, FOREHEAD_FRAC_Y))),
         x1 |-> Max(0, fx + IntFrac(fw, FOREHEAD_FRAC_X0)),
         x2 |-> Min(w_img, fx + IntFrac(fw, FOREHEAD_FRAC_X1))]

\* More bounding boxes: of size zero, of negative size, and a dict with a
\* value that int() rejects (the field "bad" marks it).
BoxZero == [given |-> TRUE, x |-> 2, y |-> 2, w |-> 0, h |-> 0]
BoxNeg == [given |-> TRUE, x |-> 12, y |-> 12, w |-> -8, h |-> -8]
BoxBad == [given |-> TRUE, x |-> 0, y |-> 0, w |-> 0, h |-> 0, bad |-> TRUE]

\* An exception raised inside the try block, in place of a colour.
Raises == <<-1>>

\* The try block of _extract_forehead_rgb on a frame of h_img x w_img
\* pixels of one colour: int() of a bad value raises; an empty region gives
\* None; otherwise the mean of the region.
TryExtract(h_img, w_img, colour, face_bbox) ==
    IF face_bbox.given /\ "bad" \in DOMAIN face_bbox THEN Raises
    ELSE LET roi == ForeheadROI(h_img, w_img, face_bbox)
         IN  IF roi.y2 <= roi.y1 \/ roi.x2 <= roi.x1 THEN NoRGB ELSE colour

ExceptReraises(e) == e

\* except Exception as e: ... return None
ExceptHandler(e) == NoRGB

\* _extract_forehead_rgb on a frame of h_img x w_img pixels.
ExtractFrom(h_img, w_img, colour, face_bbox) ==
    LET v == TryExtract(h_img, w_img, colour, face_bbox)
    IN  IF v = Raises THEN ExceptHandler(v) ELSE v

\* PPGAnalyzer._extract_forehead_rgb: None, or the mean colour of the region.
_extract_forehead_rgb(img, face_bbox) ==
    ExtractFrom(ImgH, ImgW, img.colour, face_bbox)


(***************************************************************************)
(* Scores.                                                                 *)
(***************************************************************************)
\* The band-energy ratios (snr) the spectrum of a buffer may have, in
\* ten-thousandths; snr = power_in / power_all lies in [0, 1).
SNRs == {0, 2000, 5000}

\* np.clip
Clip(v, lo, hi) == IF v < lo THEN lo ELSE IF v > hi THEN hi ELSE v

AnomalyUnclipped(snr) == ONE - 3 * snr

AnomalySlopeTwo(snr) == Clip(ONE - 2 * snr, 0, ONE)

\* PPGAnalyzer._compute_score, from the snr on: anomaly = clip(1 - 3*snr).
Anomaly(snr) == Clip(ONE - 3 * snr, 0, ONE)

CombineSwappedWeights(deep_conf, ppg_score, temp_score) ==
    [n |-> W_PPG * deep_conf + W_DEEP * ppg_score + W_TEMP * temp_score,
     d |-> 100]

\* The weighted fusion of analyze_frame, as an exact fraction of
\* ten-thousandths: (60*d + 20*p + 20*t) / 100.
Combine(deep_conf, ppg_score, temp_score) ==
    [n |-> W_DEEP * deep_conf + W_PPG * ppg_score + W_TEMP * temp_score,
     d |-> 100]

\* round(x, 4) of a non-negative fraction of ten-thousandths: the nearest
\* integer, an exact tie going to the even one.
Round4(q) ==
    LET f == q.n \div q.d
        m == q.n % q.d
    IN  IF 2 * m > q.d \/ (2 * m = q.d /\ f % 2 = 1) THEN f + 1 ELSE f

_classifyBoundaryBelow(score) ==
    IF score.n <= REAL_MAX * score.d THEN <<"real", "safe">>
    ELSE IF score.n <= FAKE_MIN * score.d THEN <<"suspicious", "warning">>
    ELSE <<"fake", "danger">>

\* _classify, on a fraction of ten-thousandths.
_classify(score) ==
    IF score.n < REAL_MAX * score.d THEN <<"real", "safe">>
    ELSE IF score.n < FAKE_MIN * score.d THEN <<"suspicious", "warning">>
    ELSE <<"fake", "danger">>

(***************************************************************************)
(* The event loop.  analyze_frame and analyze_batch are coroutines of one  *)
(* asyncio loop; a coroutine keeps the loop until it suspends in an await, *)
(* and neither handler has an await that suspends (analyze_batch awaits    *)
(* analyze_frame, a coroutine that runs to its end).  SuspendPoints is the *)
(* set of handler positions at which another handler may run.              *)
(***************************************************************************)
HandlerPcs ==
    {"decode", "preprocess", "predict", "gs_test", "gs_insert", "gs_fetch",
     "extract", "append_r", "append_g", "append_b", "len", "compute",
     "temporal", "fuse", "loop"}

SuspendPointsThreaded == HandlerPcs

SuspendPoints == {}

(***************************************************************************)
(* State.                                                                  *)
(***************************************************************************)
VARIABLES
    _sessions,   \* PPGAnalyzer._sessions: session id -> reference of a PPGSession
    heap,        \* the PPGSession objects, by reference (1, 2, ...)
    windows,     \* the temporal checker's windows: session id -> samples
    task,        \* the handler coroutines
    drawn,       \* frames handled so far
    base,        \* history: samples each session held at the start
    log,         \* history: the analyzer and tracker calls made, in order
                 \* ("ok": the frame's forehead region is not empty)
    hist,        \* history: samples appended since, per session id
    recent,      \* history: the last MAX_LEN samples per session id, by channel
    probe        \* the inputs and outputs of a function applied on its own

vars == <<_sessions, heap, windows, task, drawn, base, log, hist, recent, probe>>

NoImage ==
    [decodable |-> FALSE, face |-> FALSE, bbox |-> NoBox, colour |-> <<>>,
     conf |-> 0]
NoReq == [img |-> NoImage, frame_number |-> 0, session_id |-> "", own |-> ""]

NoResp ==
    [status |-> 0, frame_number |-> 0, deepfake_confidence |-> 0,
     ppg_score |-> 0, temporal_score |-> 0, combined |-> [n |-> 0, d |-> 1],
     combined_score |-> 0, classification |-> "", threat_level |-> ""]

NoBatchResp ==
    [status |-> 0, results |-> <<>>, session_id |-> "",
     avg |-> [n |-> 0, d |-> 1], avg_combined_score |-> 0,
     overall_verdict |-> ""]

NoProbe == [stage |-> "none"]

\* History: no state remembered.
NoSnapshot == [sessions |-> <<>>, windows |-> <<>>, at |-> -1]

IdleTask ==
    [pc |-> "idle", kind |-> "", sid |-> "", left |-> 0,
     entry |-> NoSnapshot, bentry |-> NoSnapshot,
     req |-> NoReq, absent |-> FALSE, session |-> 0, pre |-> EmptySession,
     snap |-> <<>>,
     rgb |-> NoRGB, deep_conf |-> 0, ppg_score |-> 0, path |-> "",
     arr |-> EmptySession, temp_score |-> 0,
     outcomes |-> <<>>, results |-> <<>>,
     resp |-> NoResp, bresp |-> NoBatchResp]

\* The i-th sample of the stream a session received before the start.
EarlierSample(sid, i) ==
    LET k == IF sid = "A" THEN i ELSE i + 100
    IN  <<k % 251, (3 * k) % 253, (7 * k) % 255>>

RECURSIVE ReplayFrom(_, _, _, _)
\* The session that PPGSession.append leaves when samples lo..hi of the
\* earlier stream are appended to session s, one call after the other.
ReplayFrom(s, sid, lo, hi) ==
    IF lo > hi THEN s
    ELSE IF lo = hi THEN SessionAppend(s, EarlierSample(sid, lo))
    ELSE LET mid == (lo + hi) \div 2
             left == ReplayFrom(s, sid, lo, mid)
         IN  IF SessionLen(left) >= 0      \* (the left half is built first)
             THEN ReplayFrom(left, sid, mid + 1, hi)
             ELSE left

\* The session left by the first n samples of the earlier stream.
Replay(sid, n) == ReplayFrom(EmptySession, sid, 1, n)

\* History: the last MAX_LEN of the first n samples of the earlier stream.
EarlierRecent(sid, n) ==
    LET k == Min(n, MAX_LEN)
    IN  [r |-> [j \in 1..k |-> EarlierSample(sid, n - k + j)[1]],
         g |-> [j \in 1..k |-> EarlierSample(sid, n - k + j)[2]],
         b |-> [j \in 1..k |-> EarlierSample(sid, n - k + j)[3]]]

\* History: one more sample, the last MAX_LEN kept.
Remember(rec, rgb) ==
    [r |-> LastN(Append(rec.r, rgb[1]), MAX_LEN),
     g |-> LastN(Append(rec.g, rgb[2]), MAX_LEN),
     b |-> LastN(Append(rec.b, rgb[3]), MAX_LEN)]

\* What the visual model answered for the i-th earlier frame.
EarlierConf(i) == IF i % 2 = 0 THEN 1000 ELSE 9000

\* The temporal window left by the first n frames of the earlier stream.
EarlierWindow(n) ==
    LET k == Min(n, WINDOW)
    IN  [j \in 1..k |-> <<n - k + j, EarlierConf(n - k + j)>>]

\* The colour buffer registered for a session id.
Buf(sid) == heap[_sessions[sid]]

\* The analyzer's state: the session ids of the map, each with its buffer.
Sessions == [s \in DOMAIN _sessions |-> Buf(s)]

\* History: the analyzer's sessions and the temporal windows as they are
\* now, and the number of analyzer and checker calls made so far.
Snapshot == [sessions |-> Sessions, windows |-> windows, at |-> Len(log)]

(***************************************************************************)
(* Init: the analyzer after startup(), or after earlier streams have been  *)
(* handled: no session at all; session A left by NearMin frames; session A *)
(* left by NearCap frames and session B by NearMin frames.                 *)
(***************************************************************************)
StartLevels ==
    { [A |-> 0, B |-> 0], [A |-> NearMin, B |-> 0], [A |-> NearCap, B |-> NearMin] }

Init ==
    /\ \E lv \in StartLevels :
        LET present == {s \in SessionIds : lv[s] > 0}
            ref == [s \in present |-> IF s = "A" THEN 1 ELSE 2]
        IN  /\ _sessions = ref
            /\ heap = [i \in 1..Cardinality(present) |->
                         Replay(CHOOSE s \in present : ref[s] = i,
                                lv[CHOOSE s \in present : ref[s] = i])]
            /\ windows = [s \in present |-> EarlierWindow(lv[s])]
            /\ base = lv
            /\ log = <<>>
            /\ hist = [s \in SessionIds |-> <<>>]
            /\ recent = [s \in SessionIds |-> EarlierRecent(s, lv[s])]
    /\ task = [t \in Tasks |-> IdleTask]
    /\ drawn = 0
    /\ probe = NoProbe


(***************************************************************************)
(* Scheduling: a handler takes a step when no other handler holds the      *)
(* loop, that is, when every other handler is outside its body or at a     *)
(* suspension point.                                                       *)
(***************************************************************************)
Runnable(t) ==
    \A u \in Tasks \ {t} :
        task[u].pc = "idle" \/ task[u].pc \in SuspendPoints

Set(t, rec) == task' = [task EXCEPT ![t] = rec]

\* The locals of one analyze_frame call, dropped when the call ends.
ClearFrame(rec) ==
    [rec EXCEPT !.req = NoReq, !.absent = FALSE, !.session = 0,
                !.pre = EmptySession, !.snap = <<>>, !.rgb = NoRGB,
                !.deep_conf = 0,
                !.ppg_score = 0, !.path = "", !.arr = EmptySession,
                !.temp_score = 0]

RaisedZeroFilled(rec, status) ==
    IF rec.kind = "frame"
    THEN [rec EXCEPT !.pc = "done", !.resp = [NoResp EXCEPT !.status = status]]
    ELSE [ClearFrame(rec) EXCEPT
            !.pc = "loop",
            !.outcomes = Append(@, -status),
            !.results = Append(@, [NoResp EXCEPT !.status = 200])]

RaisedAborts(rec, status) ==
    IF rec.kind = "frame"
    THEN [rec EXCEPT !.pc = "done", !.resp = [NoResp EXCEPT !.status = status]]
    ELSE [ClearFrame(rec) EXCEPT
            !.pc = "done",
            !.bresp = [NoBatchResp EXCEPT !.status = status]]

\* analyze_frame raises HTTPException(status): the single-frame request
\* ends with that status; analyze_batch catches it and goes on (pass).
\* "outcomes" remembers the failure as -status.
Raised(rec, status) ==
    IF rec.kind = "frame"
    THEN [rec EXCEPT !.pc = "done", !.resp = [NoResp EXCEPT !.status = status]]
    ELSE [ClearFrame(rec) EXCEPT !.pc = "loop",
                                 !.outcomes = Append(@, -status)]

\* analyze_frame returns r: the single-frame request ends with it;
\* analyze_batch appends it to results.
Returned(rec, r) ==
    IF rec.kind = "frame"
    THEN [rec EXCEPT !.pc = "done", !.resp = r]
    ELSE [ClearFrame(rec) EXCEPT !.pc = "loop",
                                 !.outcomes = Append(@, r.combined_score),
                                 !.results = Append(@, r)]

(***************************************************************************)
(* A request is taken up when the loop is free: its handler starts in the  *)
(* first free coroutine slot.                                              *)
(***************************************************************************)
FreeSlot(t) ==
    /\ task[t].pc = "idle"
    /\ \A u \in Tasks : u < t => task[u].pc # "idle"

\* analyze_frame(req) for a single-frame request begins.
FrameStart(t) ==
    /\ FreeSlot(t)
    /\ Runnable(t)
    /\ drawn < MaxFrames
    /\ \E img \in Images, sid \in SessionIds :
          Set(t, [IdleTask EXCEPT
                    !.pc = "decode", !.kind = "frame", !.sid = sid,
                    !.entry = Snapshot,
                    !.req = [img |-> img, frame_number |-> drawn + 1,
                             session_id |-> sid, own |-> sid]])
    /\ drawn' = drawn + 1
    /\ UNCHANGED <<_sessions, heap, windows, base, log, hist, recent, probe>>

\* analyze_batch begins: results = [].
BatchStart(t) ==
    /\ FreeSlot(t)
    /\ Runnable(t)
    /\ \E sid \in SessionIds :
          Set(t, [IdleTask EXCEPT !.pc = "loop", !.kind = "batch", !.sid = sid,
                                  !.bentry = Snapshot])
    /\ UNCHANGED <<_sessions, heap, windows, drawn, base, log,
                 hist, recent, probe>>

ForcedSessionIdKeepsOwn(batch_sid, own) == own

\* frame_req.session_id = req.session_id: the id a frame of a batch is
\* analysed under, whatever id the frame came with.
ForcedSessionId(batch_sid, own) == batch_sid

\* for frame_req in req.frames: frame_req.session_id = req.session_id, then
\* analyze_frame(frame_req).  "own" remembers the id the frame came with.
BatchNext(t) ==
    /\ task[t].pc = "loop"
    /\ Runnable(t)
    /\ drawn < MaxFrames
    /\ \E img \in Images, own \in SessionIds :
          Set(t, [task[t] EXCEPT
                    !.pc = "decode",
                    !.entry = Snapshot,
                    !.req = [img |-> img, frame_number |-> drawn + 1,
                             session_id |->
                                 ForcedSessionId(task[t].sid, own),
                             own |-> own]])
    /\ drawn' = drawn + 1
    /\ UNCHANGED <<_sessions, heap, windows, base, log, hist, recent, probe>>

\* img = _decode_frame(req.frame_b64)
Decode(t) ==
    /\ task[t].pc = "decode"
    /\ Runnable(t)
    /\ Set(t, IF task[t].req.img.decodable
              THEN [task[t] EXCEPT !.pc = "preprocess"]
              ELSE Raised(task[t], 400))
    /\ UNCHANGED <<_sessions, heap, windows, drawn, base, log,
                 hist, recent, probe>>

PreprocessAfterSessionLookup(t) ==
    LET sid == task[t].req.session_id
        known == sid \in DOMAIN _sessions
    IN  /\ task[t].pc = "preprocess"
        /\ Runnable(t)
        /\ heap' = IF known THEN heap ELSE Append(heap, EmptySession)
        /\ _sessions' = [s \in DOMAIN _sessions \cup {sid} |->
                           IF s = sid /\ ~known THEN Len(heap) + 1
                                                ELSE _sessions[s]]
        /\ Set(t, IF task[t].req.img.face
                  THEN [task[t] EXCEPT !.pc = "predict"]
                  ELSE Raised(task[t], 422))
        /\ UNCHANGED <<windows, drawn, base, log, hist, recent, probe>>

\* face, face_bbox = preprocess_frame(img); no face: 422
Preprocess(t) ==
    /\ task[t].pc = "preprocess"
    /\ Runnable(t)
    /\ Set(t, IF task[t].req.img.face
              THEN [task[t] EXCEPT !.pc = "predict"]
              ELSE Raised(task[t], 422))
    /\ UNCHANGED <<_sessions, heap, windows, drawn, base, log,
                 hist, recent, probe>>

\* deep_conf = _deepfake_model.predict(face)
Predict(t) ==
    /\ task[t].pc = "predict"
    /\ Runnable(t)
    /\ Set(t, [task[t] EXCEPT !.pc = "gs_test",
                              !.deep_conf = task[t].req.img.conf])
    /\ UNCHANGED <<_sessions, heap, windows, drawn, base, log,
                 hist, recent, probe>>


(***************************************************************************)
(* PPGAnalyzer.analyze(img, face_bbox, req.session_id), step by step.      *)
(***************************************************************************)
PpgKeyShared(req) == "A"

\* The session id analyze_frame hands to PPGAnalyzer.analyze, the key of
\* the session map.
PpgKey(req) == req.session_id

MustCreateAlways(absent) == TRUE

\* _get_session creates a session only for an id not in the map.
MustCreate(absent) == absent

ExtractBranchAppendsBlank(rec, rgb) ==
    [rec EXCEPT !.pc = "append_r",
                !.rgb = IF rgb = NoRGB THEN <<0, 0, 0>> ELSE rgb]

ExtractBranchSkipsTemporal(rec, rgb) ==
    IF rgb = NoRGB
    THEN [rec EXCEPT !.pc = "fuse", !.path = "neutral", !.ppg_score = NEUTRAL]
    ELSE [rec EXCEPT !.pc = "append_r", !.rgb = rgb]

\* if rgb is None: return 0.5; else session.append(*rgb)
ExtractBranch(rec, rgb) ==
    IF rgb = NoRGB
    THEN [rec EXCEPT !.pc = "temporal", !.path = "neutral",
                     !.ppg_score = NEUTRAL]
    ELSE [rec EXCEPT !.pc = "append_r", !.rgb = rgb]

LenBranchOffByOne(rec, n) ==
    IF n <= MIN_FRAMES
    THEN [rec EXCEPT !.pc = "temporal", !.path = "short", !.ppg_score = 0]
    ELSE [rec EXCEPT !.pc = "compute"]

\* if len(session) < self.MIN_FRAMES: return 0.0; else _compute_score
LenBranch(rec, n) ==
    IF n < MIN_FRAMES
    THEN [rec EXCEPT !.pc = "temporal", !.path = "short", !.ppg_score = 0]
    ELSE [rec EXCEPT !.pc = "compute"]

\* _get_session: if sid not in self._sessions
GsTest(t) ==
    LET sid == PpgKey(task[t].req)
        absent == sid \notin DOMAIN _sessions
    IN  /\ task[t].pc = "gs_test"
        /\ Runnable(t)
        /\ Set(t, [task[t] EXCEPT
                     !.pc = IF MustCreate(absent) THEN "gs_insert"
                                                 ELSE "gs_fetch",
                     !.absent = absent,
                     !.pre = IF absent THEN EmptySession ELSE Buf(sid),
                     !.snap = Sessions])
        /\ log' = Append(log, [op |-> "ppg", session_id |-> sid,
                                frame_number |-> task[t].req.frame_number,
                                conf |-> 0,
                                ok |-> _extract_forehead_rgb(
                                          task[t].req.img,
                                          task[t].req.img.bbox) # NoRGB])
        /\ UNCHANGED <<_sessions, heap, windows, drawn, base,
                     hist, recent, probe>>

\* _get_session: self._sessions[sid] = PPGSession()
GsInsert(t) ==
    LET sid == PpgKey(task[t].req)
    IN  /\ task[t].pc = "gs_insert"
        /\ Runnable(t)
        /\ heap' = Append(heap, EmptySession)
        /\ _sessions' = [s \in DOMAIN _sessions \cup {sid} |->
                           IF s = sid THEN Len(heap) + 1 ELSE _sessions[s]]
        /\ Set(t, [task[t] EXCEPT !.pc = "gs_fetch"])
        /\ UNCHANGED <<windows, drawn, base, log, hist, recent, probe>>

\* _get_session: return self._sessions[sid]
GsFetch(t) ==
    /\ task[t].pc = "gs_fetch"
    /\ Runnable(t)
    /\ Set(t, [task[t] EXCEPT !.pc = "extract",
                              !.session = _sessions[PpgKey(task[t].req)]])
    /\ UNCHANGED <<_sessions, heap, windows, drawn, base, log,
                 hist, recent, probe>>

\* rgb = self._extract_forehead_rgb(img_bgr, face_bbox);
\* if rgb is None: return 0.5
Extract(t) ==
    LET rgb == _extract_forehead_rgb(task[t].req.img, task[t].req.img.bbox)
    IN  /\ task[t].pc = "extract"
        /\ Runnable(t)
        /\ Set(t, ExtractBranch(task[t], rgb))
        /\ UNCHANGED <<_sessions, heap, windows, drawn, base, log,
                     hist, recent, probe>>

\* session.append: self.r.append(r)
AppendR(t) ==
    /\ task[t].pc = "append_r"
    /\ Runnable(t)
    /\ heap' = [heap EXCEPT ![task[t].session].r = DequeAppend(@, task[t].rgb[1])]
    /\ Set(t, [task[t] EXCEPT !.pc = "append_g"])
    /\ UNCHANGED <<_sessions, windows, drawn, base, log, hist, recent, probe>>

\* session.append: self.g.append(g)
AppendG(t) ==
    /\ task[t].pc = "append_g"
    /\ Runnable(t)
    /\ heap' = [heap EXCEPT ![task[t].session].g = DequeAppend(@, task[t].rgb[2])]
    /\ Set(t, [task[t] EXCEPT !.pc = "append_b"])
    /\ UNCHANGED <<_sessions, windows, drawn, base, log, hist, recent, probe>>

\* session.append: self.b.append(b); the append is now part of the history.
AppendB(t) ==
    /\ task[t].pc = "append_b"
    /\ Runnable(t)
    /\ heap' = [heap EXCEPT ![task[t].session].b = DequeAppend(@, task[t].rgb[3])]
    /\ hist' = [hist EXCEPT ![task[t].req.session_id] = Append(@, task[t].rgb)]
    /\ recent' = [recent EXCEPT ![task[t].req.session_id] =
                                  Remember(@, task[t].rgb)]
    /\ Set(t, [task[t] EXCEPT !.pc = "len"])
    /\ UNCHANGED <<_sessions, windows, drawn, base, log, probe>>

\* if len(session) < self.MIN_FRAMES: return 0.0
LenCheck(t) ==
    /\ task[t].pc = "len"
    /\ Runnable(t)
    /\ Set(t, LenBranch(task[t], SessionLen(heap[task[t].session])))
    /\ UNCHANGED <<_sessions, heap, windows, drawn, base, log,
                 hist, recent, probe>>

\* return self._compute_score(session): r, g, b = session.as_array(); the
\* spectrum of the buffer gives some snr; anomaly = clip(1 - 3 * snr, 0, 1).
Compute(t) ==
    /\ task[t].pc = "compute"
    /\ Runnable(t)
    /\ \E snr \in SNRs :
          Set(t, [task[t] EXCEPT !.pc = "temporal", !.path = "computed",
                                 !.arr = heap[task[t].session],
                                 !.ppg_score = Anomaly(snr)])
    /\ UNCHANGED <<_sessions, heap, windows, drawn, base, log,
                 hist, recent, probe>>

(***************************************************************************)
(* TemporalConsistencyChecker.update(session_id, deep_conf, frame_number): *)
(* a window of the last WINDOW samples per session; 0 with fewer than two  *)
(* samples, else the mean absolute frame-to-frame change of the            *)
(* confidences in the window, clamped to [0, 1].                           *)
(***************************************************************************)
WindowAppend(w, x) ==
    IF Len(w) >= WINDOW THEN Append(Tail(w), x) ELSE Append(w, x)

Abs(v) == IF v < 0 THEN -v ELSE v

RECURSIVE SumDeltas(_, _)
SumDeltas(w, i) ==
    IF i < 2 THEN 0
    ELSE Abs(w[i][2] - w[i - 1][2]) + SumDeltas(w, i - 1)

TemporalScore(w) ==
    IF Len(w) < 2 THEN 0
    ELSE Clip(SumDeltas(w, Len(w)) \div (Len(w) - 1), 0, ONE)

TemporalKeyDefault(req) == "A"

\* The session id analyze_frame hands to _temporal_checker.update.
TemporalKey(req) == req.session_id

Temporal(t) ==
    LET sid == TemporalKey(task[t].req)
        old == IF sid \in DOMAIN windows THEN windows[sid] ELSE <<>>
        new == WindowAppend(old, <<task[t].req.frame_number, task[t].deep_conf>>)
    IN  /\ task[t].pc = "temporal"
        /\ Runnable(t)
        /\ windows' = [s \in DOMAIN windows \cup {sid} |->
                         IF s = sid THEN new ELSE windows[s]]
        /\ Set(t, [task[t] EXCEPT !.pc = "fuse",
                                  !.temp_score = TemporalScore(new)])
        /\ log' = Append(log, [op |-> "temporal", session_id |-> sid,
                                frame_number |-> task[t].req.frame_number,
                                conf |-> task[t].deep_conf, ok |-> TRUE])
        /\ UNCHANGED <<_sessions, heap, drawn, base, hist, recent, probe>>

(***************************************************************************)
(* analyze_frame: fusion, verdict, result.                                 *)
(***************************************************************************)
FrameResult(rec) ==
    LET combined == Combine(rec.deep_conf, rec.ppg_score, rec.temp_score)
        verdict == _classify(combined)
    IN  [status |-> 200,
         frame_number |-> rec.req.frame_number,
         deepfake_confidence |-> rec.deep_conf,
         ppg_score |-> rec.ppg_score,
         temporal_score |-> rec.temp_score,
         combined |-> combined,
         combined_score |-> Round4(combined),
         classification |-> verdict[1],
         threat_level |-> verdict[2]]

Fuse(t) ==
    /\ task[t].pc = "fuse"
    /\ Runnable(t)
    /\ Set(t, Returned(task[t], FrameResult(task[t])))
    /\ UNCHANGED <<_sessions, heap, windows, drawn, base, log,
                 hist, recent, probe>>

(***************************************************************************)
(* analyze_batch, after the loop.                                          *)
(***************************************************************************)
RECURSIVE SumScores(_)
\* sum(r.combined_score for r in results)
SumScores(results) ==
    IF results = <<>> THEN 0
    ELSE results[1].combined_score + SumScores(Tail(results))

\* avg = sum(r.combined_score for r in results) / len(results)
BatchAverage(results) == [n |-> SumScores(results), d |-> Len(results)]

BatchResultAllOrNothing(rec) ==
    IF Len(rec.results) < Len(rec.outcomes) \/ rec.results = <<>>
    THEN [NoBatchResp EXCEPT !.status = 422]
    ELSE LET avg == BatchAverage(rec.results)
         IN  [status |-> 200,
              results |-> rec.results,
              session_id |-> rec.sid,
              avg |-> avg,
              avg_combined_score |-> Round4(avg),
              overall_verdict |-> _classify(avg)[2]]

\* if not results: raise HTTPException(422); else the aggregate.
BatchResult(rec) ==
    IF rec.results = <<>>
    THEN [NoBatchResp EXCEPT !.status = 422]
    ELSE LET avg == BatchAverage(rec.results)
         IN  [status |-> 200,
              results |-> rec.results,
              session_id |-> rec.sid,
              avg |-> avg,
              avg_combined_score |-> Round4(avg),
              overall_verdict |-> _classify(avg)[2]]

BatchFinish(t) ==
    /\ task[t].pc = "loop"
    /\ Runnable(t)
    /\ Set(t, [task[t] EXCEPT !.pc = "done", !.bresp = BatchResult(task[t])])
    /\ UNCHANGED <<_sessions, heap, windows, drawn, base, log,
                 hist, recent, probe>>

\* The response leaves; the coroutine is gone.
Respond(t) ==
    /\ task[t].pc = "done"
    /\ Set(t, IdleTask)
    /\ UNCHANGED <<_sessions, heap, windows, drawn, base, log,
                 hist, recent, probe>>

Next ==
    \E t \in Tasks :
        \/ FrameStart(t)
        \/ BatchStart(t)
        \/ BatchNext(t)
        \/ Decode(t)
        \/ Preprocess(t)
        \/ Predict(t)
        \/ GsTest(t)
        \/ GsInsert(t)
        \/ GsFetch(t)
        \/ Extract(t)
        \/ AppendR(t)
        \/ AppendG(t)
        \/ AppendB(t)
        \/ LenCheck(t)
        \/ Compute(t)
        \/ Temporal(t)
        \/ Fuse(t)
        \/ BatchFinish(t)
        \/ Respond(t)

Spec == Init /\ [][Next]_vars


(***************************************************************************)
(* History, for stating the properties.                                    *)
(***************************************************************************)
\* The number of samples ever appended for a session id.
Total(sid) == base[sid] + Len(hist[sid])

\* The buffer that holds the last MAX_LEN samples of a session's history.
Expected(sid) == recent[sid]

\* A handler is between the first and the last channel append for sid.
InAppend(sid) ==
    \E t \in Tasks : /\ task[t].pc \in {"append_g", "append_b"}
                     /\ task[t].req.session_id = sid

\* The handler's PPGAnalyzer.analyze call has returned.
AfterAnalyze(t) == task[t].pc \in {"temporal", "fuse"}

ExtractionFails(t) ==
    _extract_forehead_rgb(task[t].req.img, task[t].req.img.bbox) = NoRGB

(***************************************************************************)
(* C1.  Once more than MAX_LEN (300) samples have been appended to a       *)
(* session, its colour buffer has length exactly 300 and holds the 300     *)
(* most recently appended samples in insertion order.                      *)
(***************************************************************************)
C1_FifoEviction ==
    \A sid \in DOMAIN _sessions :
        (~InAppend(sid) /\ Total(sid) > MAX_LEN)
        => /\ Len(Buf(sid).r) = MAX_LEN
           /\ Len(Buf(sid).g) = MAX_LEN
           /\ Len(Buf(sid).b) = MAX_LEN
           /\ Buf(sid) = Expected(sid)

\* A session that went over capacity here: its oldest sample is gone.
C1_Witness ==
    \E sid \in DOMAIN _sessions :
        /\ ~InAppend(sid)
        /\ hist[sid] # <<>>
        /\ Total(sid) > MAX_LEN
        /\ base[sid] > 0
        /\ Buf(sid).r[1] # EarlierSample(sid, 1)[1]
        /\ Buf(sid).r[MAX_LEN] = hist[sid][Len(hist[sid])][1]

(***************************************************************************)
(* C2.  When forehead extraction fails inside PPGAnalyzer.analyze, the     *)
(* call returns exactly 0.5 and the session's colour buffer is the same    *)
(* after the call as before it.                                            *)
(***************************************************************************)
C2_FailedExtractionNeutral ==
    \A t \in Tasks :
        (AfterAnalyze(t) /\ ExtractionFails(t))
        => /\ task[t].ppg_score = NEUTRAL
           /\ task[t].req.session_id \in DOMAIN _sessions
           /\ Buf(task[t].req.session_id) = task[t].pre

\* A failed extraction on a session that already held samples.
C2_Witness ==
    \E t \in Tasks :
        /\ task[t].pc = "temporal"
        /\ ExtractionFails(t)
        /\ Len(task[t].pre.r) > 0
        /\ task[t].ppg_score = NEUTRAL

(***************************************************************************)
(* C3.  A successful analyze call that leaves the buffer with fewer than   *)
(* MIN_FRAMES (60) samples returns exactly 0.0; the anomaly computation    *)
(* runs if and only if the buffer holds at least 60 samples after the      *)
(* append, so the 60th sample of a session is the first to be scored.      *)
(***************************************************************************)
C3_MinFrames ==
    \A t \in Tasks :
        (AfterAnalyze(t) /\ ~ExtractionFails(t))
        => LET n == SessionLen(heap[task[t].session])
               total == Total(task[t].req.session_id)
           IN  /\ n < MIN_FRAMES => (task[t].ppg_score = 0 /\ task[t].path = "short")
               /\ (task[t].path = "computed") <=> (n >= MIN_FRAMES)
               /\ (task[t].path = "computed") <=> (total >= MIN_FRAMES)
               /\ task[t].path \in {"short", "computed"}

\* The 60th sample of a session is scored, the 59th having been handled too.
C3_Witness ==
    \E t \in Tasks :
        /\ task[t].pc = "temporal"
        /\ task[t].path = "computed"
        /\ Total(task[t].req.session_id) = MIN_FRAMES
        /\ Len(hist[task[t].req.session_id]) >= 2

(***************************************************************************)
(* C4.  Session isolation: the buffer of a session holds the samples of    *)
(* the frames sent for that session id and of no other, whatever calls     *)
(* for other sessions came in between, and a score is computed from that   *)
(* buffer alone.                                                           *)
(***************************************************************************)
C4_SessionIsolation ==
    /\ \A sid \in SessionIds :
          /\ (sid \in DOMAIN _sessions /\ ~InAppend(sid))
                => Buf(sid) = Expected(sid)
          /\ sid \notin DOMAIN _sessions => hist[sid] = <<>>
    /\ \A t \in Tasks :
          task[t].path = "computed"
          => task[t].arr = Expected(task[t].req.session_id)

\* A score computed for one session after another session was updated.
C4_Witness ==
    \E t \in Tasks : \E other \in SessionIds :
        /\ task[t].path = "computed"
        /\ other # task[t].req.session_id
        /\ hist[other] # <<>>
        /\ hist[task[t].req.session_id] # <<>>

(***************************************************************************)
(* C5.  Frames of one session are handled one after the other: no two      *)
(* handlers are inside analyze for the same session at once, a score is    *)
(* computed from three channels of equal length, and every appended        *)
(* sample is in the buffer (up to capacity).                               *)
(***************************************************************************)
AnalyzePcs ==
    {"gs_test", "gs_insert", "gs_fetch", "extract", "append_r", "append_g",
     "append_b", "len", "compute"}

C7_GetOrCreate ==
    \A t \in Tasks :
        task[t].pc = "extract"
        => LET sid == task[t].req.session_id
           IN  /\ sid \in DOMAIN _sessions
               /\ task[t].session = _sessions[sid]
               /\ task[t].absent
                    => /\ heap[task[t].session] = EmptySession
                       /\ base[sid] = 0 /\ hist[sid] = <<>>
               /\ ~task[t].absent
                    => /\ heap[task[t].session] = task[t].pre
                       /\ heap[task[t].session] = Expected(sid)

\* A later call gets the session created here, with its sample in it.
C7_Witness ==
    \E t \in Tasks :
        /\ task[t].pc = "extract"
        /\ ~task[t].absent
        /\ base[task[t].req.session_id] = 0
        /\ hist[task[t].req.session_id] # <<>>
        /\ Len(heap[task[t].session].r) = Len(hist[task[t].req.session_id])


(***************************************************************************)
(* The fusion and the classifier on their own: SpecFusion draws score      *)
(* triples (a pair of them, the second nowhere below the first) or a       *)
(* score, and applies analyze_frame's fusion or _classify to them.         *)
(***************************************************************************)
Grid == {0, 1000, 3000, 5000, 7000, 9000, 10000}

\* Scores as fractions of ten-thousandths: whole ten-thousandths, thirds of
\* them (a mean of three), and hundredths of them around the thresholds.
ClassifyInputs ==
    {[n |-> n, d |-> 1] : n \in 0..ONE}
    \cup {[n |-> n, d |-> 3] : n \in 0..(3 * ONE)}
    \cup {[n |-> n, d |-> 100] : n \in (299900..300100) \cup (699900..700100)}

\* The analyzer right after startup().
Fresh ==
    /\ _sessions = <<>>
    /\ heap = <<>>
    /\ windows = <<>>
    /\ task = [t \in Tasks |-> IdleTask]
    /\ drawn = 0
    /\ base = [s \in SessionIds |-> 0]
    /\ log = <<>>
    /\ hist = [s \in SessionIds |-> <<>>]
    /\ recent = [s \in SessionIds |-> EmptySession]

\* Scores one or two ten-thousandths from 0, 0.5 and 1: their fusions
\* fall between the ten-thousandths around 0.30 and 0.70.
FineGrid == {0, 1, 2} \cup (4998..5002) \cup (9998..10000)

\* The combined scores of the results of a batch: one to three of them.
BatchScores == {1000, 2999, 3000, 6999, 7000}
BatchScoreSeqs ==
    UNION {[1..n -> BatchScores] : n \in 1..3}

InitFusion ==
    /\ Fresh
    /\ \/ \E x \in Grid \X Grid \X Grid, y \in Grid \X Grid \X Grid :
             /\ \A i \in 1..3 : x[i] <= y[i]
             /\ probe = [stage |-> "fuse_in", x |-> x, y |-> y,
                         fx |-> NoResp, fy |-> NoResp]
       \/ \E x \in FineGrid \X FineGrid \X FineGrid :
             probe = [stage |-> "fuse_in", x |-> x, y |-> x,
                      fx |-> NoResp, fy |-> NoResp]
       \/ \E q \in BatchScoreSeqs :
             probe = [stage |-> "batch_in", scores |-> q, out |-> NoBatchResp]
       \/ \E q \in ClassifyInputs :
             probe = [stage |-> "classify_in", score |-> q, out |-> <<>>]

\* The frame result analyze_frame builds from three scores.
ResultOf(x) ==
    FrameResult([IdleTask EXCEPT !.deep_conf = x[1], !.ppg_score = x[2],
                                 !.temp_score = x[3]])

ApplyFusion ==
    /\ probe.stage = "fuse_in"
    /\ probe' = [probe EXCEPT !.stage = "fuse_out",
                              !.fx = ResultOf(probe.x),
                              !.fy = ResultOf(probe.y)]
    /\ UNCHANGED <<_sessions, heap, windows, task, drawn, base, log,
                 hist, recent>>

ApplyClassify ==
    /\ probe.stage = "classify_in"
    /\ probe' = [probe EXCEPT !.stage = "classify_out",
                              !.out = _classify(probe.score)]
    /\ UNCHANGED <<_sessions, heap, windows, task, drawn, base, log,
                 hist, recent>>

\* The end of analyze_batch on results with the combined scores drawn.
ApplyBatch ==
    /\ probe.stage = "batch_in"
    /\ probe' = [probe EXCEPT
                   !.stage = "batch_out",
                   !.out = BatchResult(
                       [IdleTask EXCEPT
                          !.kind = "batch", !.sid = "A",
                          !.outcomes = probe.scores,
                          !.results =
                              [i \in 1..Len(probe.scores) |->
                                 [NoResp EXCEPT
                                    !.status = 200,
                                    !.combined_score = probe.scores[i]]]])]
    /\ UNCHANGED <<_sessions, heap, windows, task, drawn, base, log, hist,
                   recent>>

NextFusion == ApplyFusion \/ ApplyClassify \/ ApplyBatch

SpecFusion == InitFusion /\ [][NextFusion]_vars

(***************************************************************************)
(* C8.  The fused score is 0.60*deep_conf + 0.20*ppg_score +               *)
(* 0.20*temporal_score; the weights sum to 1, so for inputs in [0, 1] it   *)
(* lies in [0, 1], equals c when all three inputs are c (and is reported   *)
(* as c), and does not decrease when an input grows.                       *)
(***************************************************************************)
C8_Fusion ==
    probe.stage = "fuse_out"
    => LET x == probe.x
           cx == probe.fx.combined
           cy == probe.fy.combined
       IN  /\ W_DEEP + W_PPG + W_TEMP = 100
           /\ cx.d > 0 /\ cy.d > 0
           /\ 100 * cx.n = (60 * x[1] + 20 * x[2] + 20 * x[3]) * cx.d
           /\ 0 <= cx.n /\ cx.n <= ONE * cx.d
           /\ (x[1] = x[2] /\ x[2] = x[3])
                => (cx.n = x[1] * cx.d /\ probe.fx.combined_score = x[1])
           /\ cx.n * cy.d <= cy.n * cx.d

\* combine(0.9, 0.9, 0.9) = 0.9, fake and danger.
C8_Witness ==
    /\ probe.stage = "fuse_out"
    /\ probe.x = <<9000, 9000, 9000>>
    /\ probe.y = <<10000, 9000, 9000>>
    /\ probe.fx.combined_score = 9000
    /\ probe.fx.threat_level = "danger"

(***************************************************************************)
(* C9.  _classify: score < 0.30 is (real, safe), 0.30 <= score < 0.70 is   *)
(* (suspicious, warning), score >= 0.70 is (fake, danger); exactly 0.30    *)
(* is suspicious and exactly 0.70 is fake.                                 *)
(***************************************************************************)
C9_Classify ==
    probe.stage = "classify_out"
    => LET q == probe.score
           out == probe.out
       IN  /\ q.n < 3000 * q.d => out = <<"real", "safe">>
           /\ (3000 * q.d <= q.n /\ q.n < 7000 * q.d)
                => out = <<"suspicious", "warning">>
           /\ q.n >= 7000 * q.d => out = <<"fake", "danger">>
           /\ out \in {<<"real", "safe">>, <<"suspicious", "warning">>,
                       <<"fake", "danger">>}

\* Exactly 0.30 is classified suspicious.
C9_Witness ==
    /\ probe.stage = "classify_out"
    /\ probe.score = [n |-> 3000, d |-> 1]
    /\ probe.out = <<"suspicious", "warning">>

(***************************************************************************)
(* C10.  When at least one frame of a batch produced a result, the batch   *)
(* aggregate is the arithmetic mean of combined_score over exactly the     *)
(* frames that produced a result: the others add nothing to the sum and    *)
(* nothing to the divisor.                                                 *)
(***************************************************************************)
RECURSIVE SumSeq(_)
SumSeq(q) == IF q = <<>> THEN 0 ELSE q[1] + SumSeq(Tail(q))

\* The combined scores of the frames of a batch that produced a result.
GoodScores(outcomes) == SelectSeq(outcomes, LAMBDA v : v >= 0)

C10_BatchMean ==
    \A t \in Tasks :
        (task[t].kind = "batch" /\ task[t].pc = "done"
            /\ GoodScores(task[t].outcomes) # <<>>)
        => LET good == GoodScores(task[t].outcomes)
               r == task[t].bresp
           IN  /\ r.status = 200
               /\ r.avg.d > 0
               /\ r.avg.n * Len(good) = SumSeq(good) * r.avg.d
               /\ 2 * Abs(r.avg_combined_score * Len(good) - SumSeq(good))
                    <= Len(good)
               /\ Len(r.results) = Len(good)
               /\ \A i \in 1..Len(good) : r.results[i].combined_score = good[i]

\* A batch of three frames, two of them with (different) results.
C10_Witness ==
    \E t \in Tasks :
        /\ task[t].kind = "batch" /\ task[t].pc = "done"
        /\ Len(task[t].outcomes) = 3
        /\ Len(GoodScores(task[t].outcomes)) = 2
        /\ GoodScores(task[t].outcomes)[1] # GoodScores(task[t].outcomes)[2]
        /\ task[t].bresp.status = 200

(***************************************************************************)
(* PPGAnalyzer.analyze as one call, on its own: SpecAnalyze starts from    *)
(* the analyzer states of Init and calls analyze with frames of any shape, *)
(* every kind of bounding box and either session id.                       *)
(***************************************************************************)
\* PPGAnalyzer._get_session on the analyzer state st = [map, heap].
_get_session(st, sid) ==
    IF MustCreate(sid \notin DOMAIN st.map)
    THEN [map |-> [s \in DOMAIN st.map \cup {sid} |->
                     IF s = sid THEN Len(st.heap) + 1 ELSE st.map[s]],
          heap |-> Append(st.heap, EmptySession)]
    ELSE st

\* PPGAnalyzer.analyze: the analyzer state it leaves, the path it took and
\* the value it returned ("raised": an exception left the call).
analyze(st, h_img, w_img, colour, face_bbox, session_id, snr) ==
    LET s1 == _get_session(st, session_id)
        ref == s1.map[session_id]
        rgb == ExtractFrom(h_img, w_img, colour, face_bbox)
    IN  IF rgb = Raises
        THEN [st |-> s1, path |-> "raised", score |-> -1]
        ELSE LET e == ExtractBranch(IdleTask, rgb)
             IN  IF e.pc = "temporal"
                 THEN [st |-> s1, path |-> e.path, score |-> e.ppg_score]
                 ELSE LET s2 == [s1 EXCEPT !.heap[ref] = SessionAppend(@, e.rgb)]
                          l == LenBranch(e, SessionLen(s2.heap[ref]))
                      IN  IF l.pc = "temporal"
                          THEN [st |-> s2, path |-> l.path, score |-> l.ppg_score]
                          ELSE [st |-> s2, path |-> "computed",
                                score |-> Anomaly(snr)]

\* Frame shapes (height, width): a usual frame and one without pixels.
Shapes == {<<ImgH, ImgW>>, <<0, 0>>}

Boxes == {NoBox, BoxIn, BoxOut, BoxZero, BoxNeg, BoxBad}

AnalyzeCall ==
    /\ drawn < MaxFrames
    /\ \E shape \in Shapes, colour \in {ColourA, ColourB}, face_bbox \in Boxes,
          session_id \in SessionIds, snr \in SNRs :
          LET out == analyze([map |-> _sessions, heap |-> heap], shape[1],
                             shape[2], colour, face_bbox, session_id, snr)
          IN  /\ _sessions' = out.st.map
              /\ heap' = out.st.heap
              /\ probe' = [stage |-> "called", shape |-> shape,
                           face_bbox |-> face_bbox, session_id |-> session_id,
                           before |-> Sessions, path |-> out.path,
                           score |-> out.score]
    /\ drawn' = drawn + 1
    /\ UNCHANGED <<windows, task, base, log, hist, recent>>

NextAnalyze == AnalyzeCall

SpecAnalyze == Init /\ [][NextAnalyze]_vars

(***************************************************************************)
(* The functions of ppg.py on their own: SpecPpg draws a frame shape and a *)
(* bounding box and applies _extract_forehead_rgb to them, or draws an snr *)
(* (and a larger one) and applies the last step of _compute_score.         *)
(***************************************************************************)
\* Frame heights and widths: none, one pixel, a usual frame.
Heights == {0, 1, ImgH}
Widths == {0, 1, ImgW}

\* Bounding boxes around, across and outside the frame, of negative, zero,
\* small and large size.
BoxXs == {-4, 0, 3, ImgW - 1, ImgW, ImgW + 4}
BoxYs == {-4, 0, 3, ImgH - 1, ImgH, ImgH + 4}
BoxWs == {-8, 0, 1, 3, 4, 7, 8, 20, 40}
BoxHs == {-8, 0, 1, 6, 7, 13, 14, 20, 40}

RoiBoxes ==
    {NoBox} \cup {[given |-> TRUE, x |-> x, y |-> y, w |-> w, h |-> h] :
                    x \in BoxXs, y \in BoxYs, w \in BoxWs, h \in BoxHs}

\* snr = power_in / power_all, in ten-thousandths: 0 <= snr <= 1.
SnrGrid == 0..ONE

\* How far above snr the second snr of a pair lies.
SnrSteps == {0, 1, 3000}

InitPpg ==
    /\ Fresh
    /\ \/ \E h_img \in Heights, w_img \in Widths, face_bbox \in RoiBoxes :
             probe = [stage |-> "roi_in", h_img |-> h_img, w_img |-> w_img,
                      face_bbox |-> face_bbox, roi |-> <<>>, rgb |-> <<>>]
       \/ \E snr \in SnrGrid, up \in SnrSteps :
             /\ snr + up \in SnrGrid
             /\ probe = [stage |-> "snr_in", snr |-> snr, snr2 |-> snr + up,
                         anomaly |-> -1, anomaly2 |-> -1]

ApplyExtract ==
    /\ probe.stage = "roi_in"
    /\ probe' = [probe EXCEPT
                   !.stage = "roi_out",
                   !.roi = ForeheadROI(probe.h_img, probe.w_img, probe.face_bbox),
                   !.rgb = ExtractFrom(probe.h_img, probe.w_img, ColourA,
                                       probe.face_bbox)]
    /\ UNCHANGED <<_sessions, heap, windows, task, drawn, base, log,
                 hist, recent>>

ApplyAnomaly ==
    /\ probe.stage = "snr_in"
    /\ probe' = [probe EXCEPT !.stage = "snr_out",
                              !.anomaly = Anomaly(probe.snr),
                              !.anomaly2 = Anomaly(probe.snr2)]
    /\ UNCHANGED <<_sessions, heap, windows, task, drawn, base, log, hist,
                   recent>>

NextPpg == ApplyExtract \/ ApplyAnomaly

SpecPpg == InitPpg /\ [][NextPpg]_vars

(***************************************************************************)
(* C11.  analyze_batch ends with 422 (no usable input) if and only if no   *)
(* frame of the batch produced a result, the batch without frames          *)
(* included; with at least one result it returns the aggregate, whose      *)
(* divisor is the (positive) number of results.                            *)
(***************************************************************************)
C11_BatchNoUsableInput ==
    \A t \in Tasks :
        (task[t].kind = "batch" /\ task[t].pc = "done")
        => LET good == GoodScores(task[t].outcomes)
               r == task[t].bresp
           IN  /\ r.status \in {200, 422}
               /\ (r.status = 422) <=> (good = <<>>)
               /\ r.status = 200
                    => /\ r.avg.d = Len(good) /\ r.avg.d > 0
                       /\ Len(r.results) = Len(good)

\* A batch of two frames without a face, or undecodable, ends with 422.
C11_Witness ==
    \E t \in Tasks :
        /\ task[t].kind = "batch" /\ task[t].pc = "done"
        /\ Len(task[t].outcomes) >= 2
        /\ GoodScores(task[t].outcomes) = <<>>
        /\ task[t].bresp.status = 422

(***************************************************************************)
(* C12.  Every value PPGAnalyzer.analyze returns lies in [0, 1]: 0.5 when  *)
(* the extraction failed, 0.0 with too little history, the clamped anomaly *)
(* otherwise; and every combined score built from it, a visual confidence  *)
(* in [0, 1] and a temporal score in [0, 1] lies in [0, 1], whatever       *)
(* frames came before.                                                     *)
(***************************************************************************)
InUnit(v) == 0 <= v /\ v <= ONE

ResultInUnit(r) ==
    /\ InUnit(r.deepfake_confidence)
    /\ InUnit(r.ppg_score)
    /\ InUnit(r.temporal_score)
    /\ r.combined.d > 0
    /\ 0 <= r.combined.n /\ r.combined.n <= ONE * r.combined.d
    /\ InUnit(r.combined_score)

C12_ScoresInUnit ==
    \A t \in Tasks :
        /\ AfterAnalyze(t)
             => /\ InUnit(task[t].ppg_score)
                /\ task[t].path \in {"neutral", "short", "computed"}
                /\ task[t].path = "neutral" => task[t].ppg_score = NEUTRAL
                /\ task[t].path = "short" => task[t].ppg_score = 0
        /\ task[t].pc = "fuse" => InUnit(task[t].temp_score)
        /\ task[t].resp.status = 200 => ResultInUnit(task[t].resp)
        /\ \A i \in 1..Len(task[t].results) : ResultInUnit(task[t].results[i])

\* A result whose PPG term is an anomaly that the clamp brought up to 0.0
\* (1 - 3*snr is negative for an snr above 1/3).
C12_Witness ==
    \E t \in Tasks :
        /\ task[t].kind = "frame" /\ task[t].pc = "done"
        /\ task[t].resp.status = 200
        /\ task[t].path = "computed"
        /\ task[t].resp.ppg_score = 0
        /\ task[t].resp.temporal_score > 0

(***************************************************************************)
(* C13.  A failed extraction mutates no state: after a                     *)
(* PPGAnalyzer.analyze call whose extraction fails, the session ids in     *)
(* the map and every session's buffers are what they were before the       *)
(* call, also when the session id had never been seen before.              *)
(***************************************************************************)
C13_FailedExtractionNoMutation ==
    \A t \in Tasks :
        (AfterAnalyze(t) /\ ExtractionFails(t))
        => /\ DOMAIN _sessions = DOMAIN task[t].snap
           /\ Sessions = task[t].snap

(***************************************************************************)
(* C14.  No exception leaves PPGAnalyzer.analyze: for every frame, every   *)
(* bounding box (present, absent, out of the frame, of zero or negative    *)
(* size, with a value that is no number) and every buffer state the call   *)
(* returns 0.5, 0.0 or the clamped anomaly.                                *)
(***************************************************************************)
C14_NoExceptionEscapes ==
    probe.stage = "called"
    => /\ probe.path \in {"neutral", "short", "computed"}
       /\ probe.path = "neutral" => probe.score = NEUTRAL
       /\ probe.path = "short" => probe.score = 0
       /\ probe.path = "computed" => probe.score \in {Anomaly(snr) : snr \in SNRs}
       /\ InUnit(probe.score)
       /\ probe.face_bbox \in {BoxOut, BoxZero, BoxNeg, BoxBad}
            => probe.path = "neutral"
       /\ probe.shape = <<0, 0>> => probe.path = "neutral"

\* The int() of a bad bounding-box value raised inside the try block, on a
\* session that holds samples: the call returned 0.5.
C14_Witness ==
    /\ probe.stage = "called"
    /\ probe.face_bbox = BoxBad
    /\ probe.session_id \in DOMAIN probe.before
    /\ Len(probe.before[probe.session_id].r) >= MIN_FRAMES
    /\ probe.path = "neutral"
    /\ probe.score = NEUTRAL

(***************************************************************************)
(* C15.  The forehead region is the top 15% of the bounding box's height   *)
(* (in whole pixel rows, one row at least) and the band from 25% to 75%    *)
(* of its width, clamped to the frame; the extraction fails exactly when   *)
(* the clamped region has no height or no width, and on success            *)
(* 0 <= y1 < y2 <= frame height and 0 <= x1 < x2 <= frame width, the       *)
(* means being taken over that region.                                     *)
(***************************************************************************)
\* k is the fraction num/100 of v, cut to a whole number toward zero.
IsCut(k, v, num) ==
    IF v >= 0 THEN 100 * k <= num * v /\ num * v < 100 * (k + 1)
              ELSE 100 * (k - 1) < num * v /\ num * v <= 100 * k

C15_ForeheadROI ==
    probe.stage = "roi_out"
    => LET bb == probe.face_bbox
           fx == IF bb.given THEN bb.x ELSE 0
           fy == IF bb.given THEN bb.y ELSE 0
           fw == IF bb.given THEN bb.w ELSE probe.w_img
           fh == IF bb.given THEN bb.h ELSE probe.h_img
           roi == probe.roi
           ok == probe.rgb # NoRGB
       IN  /\ \E rows \in 1..40 :
                 /\ IF 15 * fh >= 100 THEN IsCut(rows, fh, 15) ELSE rows = 1
                 /\ roi.y1 = Max(0, fy)
                 /\ roi.y2 = Min(probe.h_img, fy + rows)
           /\ \E a, b \in -40..40 :
                 /\ IsCut(a, fw, 25) /\ IsCut(b, fw, 75)
                 /\ roi.x1 = Max(0, fx + a)
                 /\ roi.x2 = Min(probe.w_img, fx + b)
           /\ ok <=> (roi.y2 > roi.y1 /\ roi.x2 > roi.x1)
           /\ ok => /\ 0 <= roi.y1 /\ roi.y1 < roi.y2 /\ roi.y2 <= probe.h_img
                     /\ 0 <= roi.x1 /\ roi.x1 < roi.x2 /\ roi.x2 <= probe.w_img
                     /\ probe.rgb = ColourA

\* A box across the upper, left and right edges of the frame: the region
\* is cut at the frame's edges and the extraction succeeds.
C15_Witness ==
    /\ probe.stage = "roi_out"
    /\ probe.h_img = ImgH /\ probe.w_img = ImgW
    /\ probe.face_bbox = [given |-> TRUE, x |-> -4, y |-> -4, w |-> 40, h |-> 40]
    /\ probe.roi = [y1 |-> 0, y2 |-> 2, x1 |-> 6, x2 |-> ImgW]
    /\ probe.rgb = ColourA

(***************************************************************************)
(* C16.  The temporal tracker, constructed with window size 30, keeps per  *)
(* session the last 30 (frame_number, confidence) samples in order of      *)
(* arrival; update returns 0 while the session holds fewer than 2 samples  *)
(* and a value in [0, 1] otherwise; for one frame it is updated with the   *)
(* session id the PPG analyzer was called with.                            *)
(***************************************************************************)
\* The (frame_number, confidence) samples the tracker was given for sid.
TemporalLog(sid) ==
    LET mine == SelectSeq(log, LAMBDA e : e.op = "temporal" /\ e.session_id = sid)
    IN  [i \in 1..Len(mine) |-> <<mine[i].frame_number, mine[i].conf>>]

C16_TemporalWindow ==
    /\ WINDOW = 30
    /\ \A sid \in SessionIds :
          LET all == EarlierWindow(base[sid]) \o TemporalLog(sid)
          IN  IF sid \in DOMAIN windows
              THEN /\ Len(windows[sid]) <= WINDOW
                   /\ windows[sid] = LastN(all, WINDOW)
              ELSE all = <<>>
    /\ \A t \in Tasks :
          task[t].pc = "fuse"
          => LET sid == task[t].req.session_id
             IN  /\ sid \in DOMAIN windows
                 /\ InUnit(task[t].temp_score)
                 /\ Len(windows[sid]) < 2 => task[t].temp_score = 0
    /\ \A i, j \in 1..Len(log) :
          (log[i].op = "ppg" /\ log[j].op = "temporal"
              /\ log[i].frame_number = log[j].frame_number)
          => log[i].session_id = log[j].session_id

\* A full window took two more samples and dropped its two oldest; the
\* update returned a positive score.
C16_Witness ==
    \E t \in Tasks :
        LET sid == task[t].req.session_id
        IN  /\ task[t].pc = "fuse"
            /\ base[sid] >= WINDOW
            /\ Len(TemporalLog(sid)) = 2
            /\ Len(windows[sid]) = WINDOW
            /\ windows[sid][WINDOW] = TemporalLog(sid)[2]
            /\ windows[sid][1] = EarlierWindow(base[sid])[3]
            /\ task[t].temp_score > 0

(***************************************************************************)
(* C17.  The PPG anomaly is clamp(1 - 3*snr, 0, 1): exactly 0 for every    *)
(* snr >= 1/3, exactly 1 for snr <= 0, strictly between 0 and 1 otherwise, *)
(* and it does not increase when the snr grows.                            *)
(***************************************************************************)
C17_AnomalyClamp ==
    probe.stage = "snr_out"
    => /\ 3 * probe.snr >= ONE => probe.anomaly = 0
       /\ probe.snr <= 0 => probe.anomaly = ONE
       /\ (0 < probe.snr /\ 3 * probe.snr < ONE)
            => /\ 0 < probe.anomaly /\ probe.anomaly < ONE
               /\ probe.anomaly + 3 * probe.snr = ONE
       /\ probe.snr <= probe.snr2 /\ probe.anomaly2 <= probe.anomaly

\* The two snr on either side of 1/3: 0.3333 gives 0.0001, 0.3334 gives 0.
C17_Witness ==
    /\ probe.stage = "snr_out"
    /\ probe.snr = 3333 /\ probe.anomaly = 1
    /\ probe.snr2 = 3334 /\ probe.anomaly2 = 0

(***************************************************************************)
(* C18.  Sessions are created on first reference and never destroyed: the  *)
(* ids in the session map are exactly the ids PPGAnalyzer.analyze was ever *)
(* called with, one session each; no step removes an id, replaces a        *)
(* session object or empties its buffers.                                  *)
(***************************************************************************)
\* The session ids analyze was called with, before or in this behaviour.
Referenced ==
    {s \in SessionIds : base[s] > 0}
    \cup {log[i].session_id : i \in {j \in 1..Len(log) : log[j].op = "ppg"}}

\* Ids whose first call is between the membership test and the insertion.
BeingInserted ==
    {task[t].req.session_id : t \in {u \in Tasks : task[u].pc = "gs_insert"}}

SessionsKept ==
    /\ DOMAIN _sessions \subseteq DOMAIN _sessions'
    /\ \A s \in DOMAIN _sessions :
          /\ _sessions'[s] = _sessions[s]
          /\ Len(heap'[_sessions'[s]].r) >= Len(heap[_sessions[s]].r)
          /\ Len(heap'[_sessions'[s]].g) >= Len(heap[_sessions[s]].g)
          /\ Len(heap'[_sessions'[s]].b) >= Len(heap[_sessions[s]].b)

SessionsAreReferenced ==
    /\ DOMAIN _sessions = Referenced \ BeingInserted
    /\ Cardinality(DOMAIN _sessions) = Cardinality(Referenced \ BeingInserted)
    /\ Len(heap) = Cardinality(DOMAIN _sessions)

C18_SessionsOnlyGrow == []SessionsAreReferenced /\ [][SessionsKept]_vars

\* Both ids were first referenced here, one of them by a frame whose
\* extraction failed: each has its session, three calls later.
C18_Witness ==
    /\ base = [s \in SessionIds |-> 0]
    /\ DOMAIN _sessions = SessionIds
    /\ \E s \in SessionIds : Buf(s) = EmptySession
    /\ Cardinality({j \in 1..Len(log) : log[j].op = "ppg"}) = 3

(***************************************************************************)
(* C19.  In analyze_batch a frame that fails, without a face (422) or      *)
(* undecodable (400), is left out in silence: the batch goes on with the   *)
(* next frame, and the results are exactly the frames that succeeded, in   *)
(* the order of the request.                                               *)
(***************************************************************************)
\* The positions, in the batch, of the frames that produced a result.
RECURSIVE GoodPositions(_, _)
GoodPositions(outcomes, k) ==
    IF k > Len(outcomes) THEN <<>>
    ELSE (IF outcomes[k] >= 0 THEN <<k>> ELSE <<>>)
         \o GoodPositions(outcomes, k + 1)

C19_BatchSkipsFailures ==
    \A t \in Tasks :
        (task[t].kind = "batch" /\ task[t].pc \in {"loop", "done"})
        => LET out == task[t].outcomes
               pos == GoodPositions(out, 1)
               first == drawn - Len(out)
           IN  /\ \A k \in 1..Len(out) : out[k] >= 0 \/ out[k] \in {-400, -422}
               /\ Len(task[t].results) = Len(pos)
               /\ \A i \in 1..Len(pos) :
                     /\ task[t].results[i].status = 200
                     /\ task[t].results[i].frame_number = first + pos[i]
                     /\ task[t].results[i].combined_score = out[pos[i]]
               /\ task[t].pc = "done"
                    => /\ task[t].bresp.status \in {200, 422}
                       /\ task[t].bresp.status = 200
                            => task[t].bresp.results = task[t].results

\* A batch of an undecodable frame, a good frame and a frame without a
\* face returns the one result.
C19_Witness ==
    \E t \in Tasks :
        /\ task[t].kind = "batch" /\ task[t].pc = "done"
        /\ Len(task[t].outcomes) = 3
        /\ task[t].outcomes[1] = -400
        /\ task[t].outcomes[2] >= 0
        /\ task[t].outcomes[3] = -422
        /\ task[t].bresp.status = 200
        /\ Len(task[t].bresp.results) = 1
        /\ task[t].bresp.results[1].frame_number = 2

(***************************************************************************)
(* C20.  For every frame in which a face is found analyze_frame makes      *)
(* exactly one PPG update and then exactly one temporal update, both with  *)
(* the request's session id; a failed forehead extraction does not         *)
(* suppress the temporal update or the result: it puts 0.5 in the place    *)
(* of the PPG term of the fusion.                                          *)
(***************************************************************************)
\* The analyzer and tracker calls made for frame number fn, in order.
CallsFor(fn) == SelectSeq(log, LAMBDA e : e.frame_number = fn)

\* One PPG update, then one temporal update, both for sid.
OnePpgThenOneTemporal(fn, sid) ==
    LET c == CallsFor(fn)
    IN  /\ Len(c) = 2
        /\ c[1].op = "ppg" /\ c[1].session_id = sid
        /\ c[2].op = "temporal" /\ c[2].session_id = sid

C20_OneUpdateEach ==
    /\ \A fn \in 1..drawn :
          LET c == CallsFor(fn)
          IN  /\ Len(c) <= 2
              /\ Len(c) >= 1 => c[1].op = "ppg"
              /\ Len(c) = 2 => c[2].op = "temporal"
    /\ \A t \in Tasks :
          /\ task[t].pc \in {"predict", "gs_test"}
               => (task[t].req.img.face /\ CallsFor(task[t].req.frame_number) = <<>>)
          /\ task[t].pc = "fuse"
               => OnePpgThenOneTemporal(task[t].req.frame_number,
                                        task[t].req.session_id)
          /\ task[t].resp.status = 200
               => OnePpgThenOneTemporal(task[t].resp.frame_number, task[t].sid)
          /\ task[t].resp.status \in {400, 422}
               => CallsFor(task[t].req.frame_number) = <<>>
          /\ \A i \in 1..Len(task[t].results) :
                OnePpgThenOneTemporal(task[t].results[i].frame_number,
                                      task[t].sid)
          /\ (task[t].kind = "frame" /\ task[t].pc = "done"
                 /\ task[t].req.img.face /\ ExtractionFails(t))
               => /\ task[t].resp.status = 200
                  /\ task[t].resp.ppg_score = NEUTRAL
                  /\ task[t].resp.temporal_score = task[t].temp_score
                  /\ 100 * task[t].resp.combined.n
                       = (60 * task[t].deep_conf + 20 * NEUTRAL
                          + 20 * task[t].temp_score) * task[t].resp.combined.d

\* A frame whose extraction failed got its result, with a temporal score
\* from a window of several samples.
C20_Witness ==
    \E t \in Tasks :
        /\ task[t].kind = "frame" /\ task[t].pc = "done"
        /\ ExtractionFails(t)
        /\ task[t].resp.status = 200
        /\ task[t].resp.ppg_score = NEUTRAL
        /\ task[t].resp.temporal_score > 0
        /\ Len(CallsFor(task[t].resp.frame_number)) = 2

(***************************************************************************)
(* C21.  After any sequence of analyze calls the R, G and B buffers of a   *)
(* session have the same length, the smaller of 300 and the number of      *)
(* analyze calls for that session whose extraction succeeded: a failed     *)
(* extraction counts neither toward the 60 samples nor toward the 300.     *)
(***************************************************************************)
\* The analyze calls for sid whose forehead region was not empty, those
\* before this behaviour included.
Successes(sid) ==
    base[sid]
    + Cardinality({j \in 1..Len(log) :
                      /\ log[j].op = "ppg"
                      /\ log[j].session_id = sid
                      /\ log[j].ok})

\* A handler is inside PPGAnalyzer.analyze for sid.
InAnalyze(sid) ==
    \E t \in Tasks : /\ task[t].pc \in AnalyzePcs
                     /\ task[t].req.session_id = sid

C21_ChannelLengths ==
    /\ \A sid \in DOMAIN _sessions :
          ~InAnalyze(sid)
          => /\ Len(Buf(sid).r) = Min(MAX_LEN, Successes(sid))
             /\ Len(Buf(sid).g) = Len(Buf(sid).r)
             /\ Len(Buf(sid).b) = Len(Buf(sid).r)
    /\ \A t \in Tasks :
          AfterAnalyze(t)
          => (task[t].path = "computed"
                <=> (/\ ~ExtractionFails(t)
                     /\ Successes(task[t].req.session_id) >= MIN_FRAMES))

\* A session one sample short of 60 took a failed extraction and then a
\* successful one: the score is computed only now, on 60 samples.
C21_Witness ==
    \E t \in Tasks :
        LET sid == task[t].req.session_id
        IN  /\ task[t].pc = "temporal"
            /\ task[t].path = "computed"
            /\ Successes(sid) = MIN_FRAMES
            /\ Len(Buf(sid).r) = MIN_FRAMES
            /\ \E j \in 1..Len(log) :
                  /\ log[j].op = "ppg" /\ log[j].session_id = sid
                  /\ ~log[j].ok

(***************************************************************************)
(* C22.  In every frame result the classification and the threat level     *)
(* agree with the reported combined_score: below 0.30 (real, safe), from   *)
(* 0.30 to below 0.70 (suspicious, warning), from 0.70 on (fake, danger);  *)
(* and the overall_verdict of a batch agrees in the same way with the      *)
(* reported avg_combined_score.                                            *)
(***************************************************************************)
\* The verdict that goes with a reported score (in ten-thousandths).
VerdictOfReported(score) ==
    IF score < REAL_MAX THEN <<"real", "safe">>
    ELSE IF score < FAKE_MIN THEN <<"suspicious", "warning">>
    ELSE <<"fake", "danger">>

C22_VerdictAgreesWithReported ==
    /\ probe.stage = "fuse_out"
         => <<probe.fx.classification, probe.fx.threat_level>>
              = VerdictOfReported(probe.fx.combined_score)
    /\ (probe.stage = "batch_out" /\ probe.out.status = 200)
         => probe.out.overall_verdict
              = VerdictOfReported(probe.out.avg_combined_score)[2]

(***************************************************************************)
(* C23.  A frame that is rejected, with 400 because it cannot be decoded   *)
(* or with 422 because no face is found, leaves all session state as it    *)
(* was when the call began: no PPG sample is appended, no temporal sample  *)
(* is recorded and no session is created, for a single-frame request and   *)
(* for a frame of a batch alike.                                           *)
(***************************************************************************)
\* The analyze_frame call of handler t has just ended with 400 or 422.
RejectedFrame(t) ==
    \/ /\ task[t].kind = "frame"
       /\ task[t].pc = "done"
       /\ task[t].resp.status \in {400, 422}
    \/ /\ task[t].kind = "batch"
       /\ task[t].pc \in {"loop", "done"}
       /\ task[t].outcomes # <<>>
       /\ task[t].outcomes[Len(task[t].outcomes)] \in {-400, -422}

\* The session state is the one remembered in snapshot e.
SameAs(e) ==
    /\ e # NoSnapshot
    /\ Sessions = e.sessions
    /\ windows = e.windows
    /\ Len(log) = e.at

C23_RejectedFrameNoMutation ==
    \A t \in Tasks : RejectedFrame(t) => SameAs(task[t].entry)

C23_Witness ==
    \E t \in Tasks :
        /\ RejectedFrame(t)
        /\ task[t].kind = "frame"
        /\ task[t].resp.status = 422
        /\ task[t].req.session_id \notin DOMAIN _sessions
        /\ task[t].req.session_id \notin DOMAIN windows
        /\ DOMAIN _sessions # {}

(***************************************************************************)
(* C24.  A batch that fails with 422 for want of a usable frame leaves     *)
(* every session's PPG buffer and temporal window exactly as they were     *)
(* before the batch, and creates no session.                               *)
(***************************************************************************)
FailedBatch(t) ==
    /\ task[t].kind = "batch"
    /\ task[t].pc = "done"
    /\ task[t].bresp.status = 422

C24_FailedBatchNoMutation ==
    \A t \in Tasks : FailedBatch(t) => SameAs(task[t].bentry)

C24_Witness ==
    \E t \in Tasks :
        /\ FailedBatch(t)
        /\ \E i, j \in 1..Len(task[t].outcomes) :
              task[t].outcomes[i] = -400 /\ task[t].outcomes[j] = -422
        /\ task[t].sid \notin DOMAIN _sessions
        /\ DOMAIN _sessions # {}

(***************************************************************************)
(* C25.  analyze_batch analyses every frame under the batch's session id,  *)
(* whatever id the frame came with: all the PPG and temporal calls of the  *)
(* batch are made, in request order, for the batch's session, and no other *)
(* session, a frame's own one included, is created or modified.            *)
(***************************************************************************)
\* Session s is as it was in snapshot e, absent or with the same content.
Untouched(s, e) ==
    /\ s \in DOMAIN _sessions <=> s \in DOMAIN e.sessions
    /\ s \in DOMAIN _sessions => Buf(s) = e.sessions[s]
    /\ s \in DOMAIN windows <=> s \in DOMAIN e.windows
    /\ s \in DOMAIN windows => windows[s] = e.windows[s]

C25_BatchSessionForced ==
    \A t \in Tasks :
        task[t].kind = "batch"
        => /\ task[t].req # NoReq => task[t].req.session_id = task[t].sid
           /\ \A j \in (task[t].bentry.at + 1)..Len(log) :
                 /\ log[j].session_id = task[t].sid
                 /\ \A k \in (j + 1)..Len(log) :
                       log[j].frame_number <= log[k].frame_number
           /\ \A s \in SessionIds \ {task[t].sid} :
                 Untouched(s, task[t].bentry)

C25_Witness ==
    \E t \in Tasks :
        /\ task[t].kind = "batch"
        /\ task[t].pc = "fuse"
        /\ task[t].req.own # task[t].sid
        /\ task[t].path \in {"short", "computed"}
        /\ Len(task[t].outcomes) >= 1
        /\ task[t].req.own \notin DOMAIN _sessions
        /\ task[t].req.own \notin DOMAIN windows
        /\ ~Untouched(task[t].sid, task[t].bentry)

=============================================================================
